---- MODULE Spec2Model ----
(***************************************************************************)
(* Identifier resolution of expo-cli's eject command                       *)
(* (packages/expo-cli/src/commands/eject/ConfigValidation.ts):             *)
(* getOrPromptForBundleIdentifier / getOrPromptForPackage, the two         *)
(* store-collision lookups with their process-wide caches, and the config  *)
(* persistence step.                                                       *)
(*                                                                         *)
(* A JavaScript string is a sequence of one-character strings, so that the *)
(* validators, the template `com.${username}.${slug}` and the dash         *)
(* stripping are computed character by character.                          *)
(***************************************************************************)
EXTENDS Integers, Sequences, FiniteSets, TLC

VARIABLES
    config,                             \* the project's Expo config, as getConfig reads it
    interactive,                        \* whether a terminal is attached to the process
    cachedIOSBundleIdResults,           \* module-level cache, line 22
    cachedAndroidApplicationIdResults,  \* module-level cache, line 23
    pc,                                 \* position inside the running resolve call
    platform,                           \* which entry point is running
    exp,                                \* the config read by the running activation
    recommended,                        \* recommendedBundleId / recommendedPackage
    value,                              \* bundleIdentifier / packageName from the prompt
    warning,                            \* result of the collision lookup
    trace,                              \* collaborator calls of the running top-level call
    outcome,                            \* how the last top-level call ended
    storeRequests,                      \* per platform, the ids sent to the store so far
    nCalls,                             \* top-level resolve calls started in this process
    declines                            \* declined confirmations of the running call

vars == <<config, interactive, cachedIOSBundleIdResults,
          cachedAndroidApplicationIdResults, pc, platform, exp, recommended,
          value, warning, trace, outcome, storeRequests, nCalls, declines>>

----------------------------------------------------------------------------
(* Bounds of the model *)

MaxCalls == 2       \* top-level resolve calls per process
MaxDeclines == 1    \* declined confirmations per top-level call
MaxLen == 5         \* length of the strings handed to a validator on its own

----------------------------------------------------------------------------
(* Strings *)

\* The letters the modelled strings use (those of "undefined" included), of
\* the classes a-z and A-Z.
Letters == {"a", "b", "c", "d", "e", "f", "i", "m", "n", "o", "r", "s", "t",
            "u", "A"}
Digits == {"1"}

\* JavaScript's undefined; not a string of the alphabet.
Undefined == <<"undefined">>

\* JavaScript truthiness of a string-or-undefined value.
Truthy(v) == v # Undefined /\ v # <<>>

\* Template-literal interpolation `${v}`.
Interp(v) == IF v = Undefined
             THEN <<"u", "n", "d", "e", "f", "i", "n", "e", "d">>
             ELSE v

\* value.split(ch).join(''): value without its occurrences of ch.
StripChar(s, ch) == SelectSeq(s, LAMBDA c : c # ch)

\* validateBundleId with a star in place of the plus: a letter alone passes.
validateBundleId_Star(v) ==
    /\ Len(v) >= 1
    /\ v[1] \in Letters
    /\ \A i \in 2..Len(v) : v[i] \in Letters \cup Digits \cup {"-", "."}

\* A letter, then one or more letters, digits, '-' or '.' (the regular
\* expression of line 15).
validateBundleId(v) ==
    /\ Len(v) >= 2
    /\ v[1] \in Letters
    /\ \A i \in 2..Len(v) : v[i] \in Letters \cup Digits \cup {"-", "."}

\* A letter, then letters, digits or '_'; then one or more groups of a dot,
\* a letter, and letters, digits or '_' (the regular expression of line 19):
\* only these characters, a letter first and after every dot, and a dot.
validatePackage(v) ==
    /\ Len(v) >= 1
    /\ v[1] \in Letters
    /\ \A i \in 1..Len(v) : v[i] \in Letters \cup Digits \cup {"_", "."}
    /\ \E i \in 1..Len(v) : v[i] = "."
    /\ \A i \in 1..Len(v) : v[i] = "." => (i < Len(v) /\ v[i + 1] \in Letters)

----------------------------------------------------------------------------
(* Platforms: the two entry points and what differs between them *)

Platforms == {"ios", "android"}

Other(p) == IF p = "ios" THEN "android" ELSE "ios"

\* The config field each entry point resolves.
Field(p) == IF p = "ios" THEN "bundleIdentifier" ELSE "package"

\* The validator of each entry point.
Validate(p, v) == IF p = "ios" THEN validateBundleId(v) ELSE validatePackage(v)

noIOSBundleIdMessage == "Your project must have a ios.bundleIdentifier set in the Expo config"
noAndroidPackageMessage == "Your project must have a android.package set in the Expo config"

NonInteractiveHelp(p) ==
    IF p = "ios" THEN noIOSBundleIdMessage ELSE noAndroidPackageMessage

FormatMessage(p) ==
    IF p = "ios"
    THEN "The ios.bundleIdentifier defined in your Expo config is not formatted properly."
    ELSE "Invalid format of Android package name."

Header(p) == IF p = "ios" THEN "iOS Bundle Identifier" ELSE "Android package"

StoreHost(p) == IF p = "ios" THEN "itunes.apple.com" ELSE "play.google.com"

NoConfigNotice == "No Expo config was found."

ManualEditNotice == "Please add the following to your Expo config, and try again... "

----------------------------------------------------------------------------
(* The project config *)

\* exp.<section>?.<field>; a section is a function from its field names.
Get(cfg, section, field) ==
    IF field \in DOMAIN cfg[section] THEN cfg[section][field] ELSE Undefined

\* { ...(exp.<section> || {}), <field>: v }
Spread(section, field, v) ==
    [f \in DOMAIN section \cup {field} |-> IF f = field THEN v ELSE section[f]]

\* The identifiers a config may hold: none, "" (set but empty), "c.a" (valid
\* for both platforms), and for iOS "1b", for Android "c_a" (each valid for
\* neither platform).
IosConfigIds == {Undefined, <<>>, <<"c", ".", "a">>, <<"1", "b">>}
AndroidConfigIds == {Undefined, <<>>, <<"c", ".", "a">>, <<"c", "_", "a">>}

\* What the user may type at the prompt (the prompt's validator filters it);
\* "constructor" is a well-formed bundle identifier and the name of a
\* property every JavaScript object inherits.
Constructor == <<"c", "o", "n", "s", "t", "r", "u", "c", "t", "o", "r">>

TypedIds == {<<"c", ".", "a">>, <<"a", "_", ".", "b">>, <<"1", "b">>, <<>>,
             Constructor}

Owners == {Undefined, <<>>, <<"o">>}
Usernames == {Undefined, <<"m">>}
Slugs == {<<"a", "-", "b">>, <<"1", "_">>}

\* A section with field set to v (or without it when v is Undefined), and with
\* the section's other field present or not.
Section(field, v, extraField, extra) ==
    [f \in (IF v = Undefined THEN {} ELSE {field})
             \cup (IF extra = Undefined THEN {} ELSE {extraField})
       |-> IF f = field THEN v ELSE extra]

Config(i, a, extras, o, s) ==
    [ios |-> Section("bundleIdentifier", i, "buildNumber",
                     IF extras THEN <<"1">> ELSE Undefined),
     android |-> Section("package", a, "applicationId",
                         IF extras THEN <<"b", ".", "c">> ELSE Undefined),
     owner |-> o, slug |-> s]

\* Configs that differ in the two identifiers.
IdentifierConfigs ==
    { Config(i, a, FALSE, Undefined, <<"a", "-", "b">>) :
        i \in IosConfigIds, a \in AndroidConfigIds }

\* Configs without a usable identifier, which differ in what a suggestion is
\* made of: owner, slug, and the sections' other fields (ios.buildNumber and
\* android.applicationId, both set or both unset).
SuggestionConfigs ==
    { Config(ia[1], ia[2], x, o, s) :
        ia \in {<<Undefined, Undefined>>,
                <<Undefined, <<"c", "_", "a">> >>,
                <<<<"1", "b">>, Undefined>>},
        x \in BOOLEAN, o \in Owners, s \in Slugs }

Configs == IdentifierConfigs \cup SuggestionConfigs

----------------------------------------------------------------------------
(* Results of a call, and the record of what a call did *)

\* The activation has read no config yet.
NotRead == [ios |-> <<>>, android |-> <<>>, owner |-> Undefined, slug |-> Undefined]

NoOutcome == [kind |-> "none", val |-> Undefined]
Returned(v) == [kind |-> "return", val |-> v]
CommandError(msg) == [kind |-> "CommandError", val |-> msg]
SilentError == [kind |-> "SilentError", val |-> Undefined]

Event(op, arg) == [op |-> op, arg |-> arg]

\* A displayed line: plain text (log), a warning (log.nestedWarn) or a
\* JSON.stringify'd object. Calls that display only a blank line are left out.
Log(kind, text) == Event("log", [kind |-> kind, text |-> text])

Init ==
    /\ config \in Configs
    /\ interactive \in BOOLEAN
    /\ cachedIOSBundleIdResults = <<>>
    /\ cachedAndroidApplicationIdResults = <<>>
    /\ pc = "idle"
    /\ platform = "ios"
    /\ exp = NotRead
    /\ recommended = Undefined
    /\ value = Undefined
    /\ warning = Undefined
    /\ trace = <<>>
    /\ outcome = NoOutcome
    /\ storeRequests = [p \in Platforms |-> {}]
    /\ nCalls = 0
    /\ declines = 0

\* The command calls one of the two entry points.
Start(p) ==
    /\ pc = "idle"
    /\ nCalls < MaxCalls
    /\ nCalls' = nCalls + 1
    /\ platform' = p
    /\ pc' = "read"
    /\ trace' = <<>>
    /\ outcome' = NoOutcome
    /\ declines' = 0
    /\ exp' = NotRead
    /\ recommended' = Undefined
    /\ value' = Undefined
    /\ warning' = Undefined
    /\ UNCHANGED <<config, interactive, cachedIOSBundleIdResults,
                   cachedAndroidApplicationIdResults, storeRequests>>

\* The running call ends with result r.
Finish(r) ==
    /\ pc' = "idle"
    /\ outcome' = r

----------------------------------------------------------------------------
(* Lines 105-115 / 196-206: read the config, return or reject what it holds *)

\* ExistingValueAction without the early return of a valid value.
ExistingValueAction_NoEarlyReturn(p, current) ==
    IF Truthy(current) /\ ~Validate(p, current) THEN "throw" ELSE "prompt"

\* ExistingValueAction without the throw: a malformed value is prompted over.
ExistingValueAction_Overwrite(p, current) ==
    IF Truthy(current) /\ Validate(p, current) THEN "return" ELSE "prompt"

\* What the entry point does with the value the config holds for its field:
\* "return", "throw" or "prompt".
ExistingValueAction(p, current) ==
    IF Truthy(current)
    THEN IF Validate(p, current) THEN "return" ELSE "throw"
    ELSE "prompt"

ReadConfig ==
    /\ pc = "read"
    /\ exp' = config
    /\ LET current == Get(config, platform, Field(platform))
           todo == ExistingValueAction(platform, current)
       IN \/ /\ todo = "return"
             /\ Finish(Returned(current))
          \/ /\ todo = "throw"
             /\ Finish(CommandError(FormatMessage(platform)))
          \/ /\ todo = "prompt"
             /\ pc' = "suggest"
             /\ UNCHANGED outcome
    /\ trace' = Append(trace, Event("getConfig", Undefined))
    /\ UNCHANGED <<config, interactive, cachedIOSBundleIdResults,
                   cachedAndroidApplicationIdResults, platform, recommended,
                   value, warning, storeRequests, nCalls, declines>>

----------------------------------------------------------------------------
(* Lines 117-128 / 208-220: the recommended identifier *)

\* exp.android?.package for iOS, exp.ios?.bundleIdentifier for Android.
OtherId(p, cfg) == Get(cfg, Other(p), Field(Other(p)))

\* The condition of the first `if`: the other platform's identifier is usable.
OtherUsable(p, cfg) == Truthy(OtherId(p, cfg)) /\ Validate(p, OtherId(p, cfg))

\* PossibleId keeping the dashes on both platforms.
PossibleId_KeepDashes(p, username, slug) ==
    <<"c", "o", "m", ".">> \o Interp(username) \o <<".">> \o Interp(slug)

\* com.<username>.<slug>; the Android entry point strips the dashes.
PossibleId(p, username, slug) ==
    LET id == <<"c", "o", "m", ".">> \o Interp(username) \o <<".">> \o Interp(slug)
    IN IF p = "android" THEN StripChar(id, "-") ELSE id

\* exp.owner ?? <current username>: the lookup result is used only when the
\* config has no owner.
UsernameOf(cfg, lookedUp) == IF cfg.owner # Undefined THEN cfg.owner ELSE lookedUp

\* Whether UserManager.getCurrentUsernameAsync() is called.
NeedsIdentity(p, cfg) == ~OtherUsable(p, cfg) /\ cfg.owner = Undefined

\* Recommend without its first branch: only the synthesized identifier.
Recommend_IgnoreOther(p, cfg, lookedUp) ==
    LET username == UsernameOf(cfg, lookedUp)
        possibleId == PossibleId(p, username, cfg.slug)
    IN IF Truthy(username) /\ Validate(p, possibleId)
       THEN possibleId
       ELSE Undefined

\* Recommend offering the synthesized identifier without validating it.
Recommend_Unvalidated(p, cfg, lookedUp) ==
    IF OtherUsable(p, cfg)
    THEN OtherId(p, cfg)
    ELSE LET username == UsernameOf(cfg, lookedUp)
             possibleId == PossibleId(p, username, cfg.slug)
         IN IF Truthy(username) THEN possibleId ELSE Undefined

\* The value of recommendedBundleId / recommendedPackage.
Recommend(p, cfg, lookedUp) ==
    IF OtherUsable(p, cfg)
    THEN OtherId(p, cfg)
    ELSE LET username == UsernameOf(cfg, lookedUp)
             possibleId == PossibleId(p, username, cfg.slug)
         IN IF Truthy(username) /\ Validate(p, possibleId)
            THEN possibleId
            ELSE Undefined

Suggest ==
    /\ pc = "suggest"
    /\ \E lookedUp \in Usernames :
         /\ recommended' = Recommend(platform, exp, lookedUp)
         /\ trace' = trace
                \o (IF NeedsIdentity(platform, exp)
                    THEN <<Event("identity", lookedUp)>> ELSE <<>>)
                \o <<Log("text", Header(platform))>>
    /\ pc' = "prompt"
    /\ UNCHANGED <<config, interactive, cachedIOSBundleIdResults,
                   cachedAndroidApplicationIdResults, platform, exp, value,
                   warning, outcome, storeRequests, nCalls, declines>>

----------------------------------------------------------------------------
(* Lines 141-153 / 234-245: the prompt *)

\* Question without the non-interactive help text.
Question_NoHelp(p, initial) ==
    [initial |-> initial, validate |-> p, nonInteractiveHelp |-> ""]

\* Question with the other entry point's validator.
Question_OtherValidator(p, initial) ==
    [initial |-> initial, validate |-> Other(p),
     nonInteractiveHelp |-> NonInteractiveHelp(p)]

\* The question handed to prompt(): its initial value, the validator
\* (by platform) and the non-interactive help text.
Question(p, initial) ==
    [initial |-> initial, validate |-> p, nonInteractiveHelp |-> NonInteractiveHelp(p)]

\* The prompt collaborator: without a terminal it fails with the question's
\* non-interactive help; with one it yields only answers its validator accepts.
PromptAnswers(q) == {v \in TypedIds : Validate(q.validate, v)}

Prompt ==
    /\ pc = "prompt"
    /\ LET q == Question(platform, recommended)
       IN \/ /\ ~interactive
             /\ Finish(CommandError(q.nonInteractiveHelp))
             /\ trace' = Append(trace, Event("prompt", [question |-> q,
                                                        answer |-> Undefined]))
             /\ UNCHANGED value
          \/ /\ interactive
             /\ \E v \in PromptAnswers(q) :
                  /\ value' = v
                  /\ trace' = Append(trace, Event("prompt", [question |-> q,
                                                             answer |-> v]))
             /\ pc' = "lookup"
             /\ UNCHANGED outcome
    /\ UNCHANGED <<config, interactive, cachedIOSBundleIdResults,
                   cachedAndroidApplicationIdResults, platform, exp,
                   recommended, warning, storeRequests, nCalls, declines>>

----------------------------------------------------------------------------
(* Lines 22-91: the collision lookups and their caches *)

Cache(p) == IF p = "ios" THEN cachedIOSBundleIdResults
            ELSE cachedAndroidApplicationIdResults

\* The caches are plain objects ({}): besides the entries stored in them,
\* cache[id] finds the properties inherited from Object.prototype, such as
\* cache["constructor"], the function Object.
InheritedKeys == {Constructor}
Inherited == <<"function Object">>

\* cache[id]
CacheRead(cache, id) ==
    IF id \in DOMAIN cache THEN cache[id]
    ELSE IF id \in InheritedKeys THEN Inherited
    ELSE Undefined

\* cache[id] is truthy: stored warning texts are non-empty, and so is an
\* inherited function.
Cached(cache, id) == CacheRead(cache, id) # Undefined

\* cache[id] = message
CacheWrite(cache, id, message) ==
    [k \in DOMAIN cache \cup {id} |-> IF k = id THEN message ELSE cache[k]]

\* What got(url) may produce: a rejection (network fault, or an HTTP error
\* status such as 404), or a response with a status code and a body; the body
\* parses as JSON or not, and a parsed body has a resultCount and results.
App == [trackName |-> "Maps", sellerName |-> "Acme"]

Rejected == [rejected |-> TRUE, statusCode |-> 0, parses |-> FALSE,
             resultCount |-> 0, results |-> <<>>]

Response(status, parses, n, results) ==
    [rejected |-> FALSE, statusCode |-> status, parses |-> parses,
     resultCount |-> n, results |-> results]

StoreResponses(p) ==
    IF p = "ios"
    THEN {Rejected,
          Response(200, FALSE, 0, <<>>),        \* a body that is no JSON
          Response(200, TRUE, 0, <<>>),         \* no app uses the id
          Response(200, TRUE, 1, <<App>>),      \* an app uses the id
          Response(200, TRUE, 1, <<>>)}         \* a count without its results
    ELSE {Rejected,
          Response(200, FALSE, 0, <<>>),        \* the store page exists
          Response(204, FALSE, 0, <<>>)}        \* another success status

formatInUseWarning(appName, author, id) ==
    <<"The app ", appName, " by ", author, " is already using ", id>>

AndroidInUseWarning(id) ==
    <<"The application ID ", id, " is already in use. ",
      "https://play.google.com/store/apps/details?id=", id>>

\* StoreWarning failing closed: a response it cannot read counts as a collision.
StoreWarning_FailClosed(p, id, r) ==
    IF r.rejected THEN Undefined
    ELSE IF p = "ios"
    THEN IF ~r.parses \/ r.resultCount > 0
         THEN formatInUseWarning("?", "?", id)
         ELSE Undefined
    ELSE IF r.statusCode = 200 THEN AndroidInUseWarning(id) ELSE Undefined

\* The warning the try block computes from the response, or Undefined when
\* it computes none or throws (the catch block swallows every throw).
StoreWarning(p, id, r) ==
    IF r.rejected THEN Undefined
    ELSE IF p = "ios"
    THEN IF ~r.parses THEN Undefined
         ELSE IF r.resultCount > 0
         THEN IF Len(r.results) = 0 THEN Undefined
              ELSE formatInUseWarning(r.results[1].trackName,
                                      r.results[1].sellerName, id)
         ELSE Undefined
    ELSE IF r.statusCode = 200 THEN AndroidInUseWarning(id) ELSE Undefined

\* AfterLookup without the test: every value is persisted unasked.
AfterLookup_NeverConfirm(w) == "persist"

\* Where resolve goes with the lookup's result: `if (warning)`.
AfterLookup(w) == IF w # Undefined THEN "confirm" ELSE "persist"

\* The lookup finds its answer in the cache.
LookupCached ==
    /\ pc = "lookup"
    /\ Cached(Cache(platform), value)
    /\ warning' = CacheRead(Cache(platform), value)
    /\ pc' = AfterLookup(warning')
    /\ UNCHANGED <<config, interactive, cachedIOSBundleIdResults,
                   cachedAndroidApplicationIdResults, platform, exp,
                   recommended, value, trace, outcome, storeRequests, nCalls,
                   declines>>

\* GoesToStore without the early return on an unreachable host.
GoesToStore_Always(reachable) == TRUE

\* Whether the lookup goes on to the store after the probe's answer.
GoesToStore(reachable) == reachable

\* No cache entry: the lookup probes the store's host.
Probe ==
    /\ pc = "lookup"
    /\ ~Cached(Cache(platform), value)
    /\ \E reachable \in BOOLEAN :
         /\ trace' = Append(trace, Event("probe", [host |-> StoreHost(platform),
                                                       reachable |-> reachable]))
         /\ IF GoesToStore(reachable)
            THEN /\ pc' = "fetch"
                 /\ UNCHANGED warning
            ELSE /\ warning' = Undefined
                 /\ pc' = AfterLookup(warning')
    /\ UNCHANGED <<config, interactive, cachedIOSBundleIdResults,
                   cachedAndroidApplicationIdResults, platform, exp,
                   recommended, value, outcome, storeRequests, nCalls,
                   declines>>

\* CacheAfter keeping only the newest warning.
CacheAfter_Replace(cache, id, w) ==
    IF w # Undefined THEN [k \in {id} |-> w] ELSE cache

\* The cache after a lookup that computed warning w for id.
CacheAfter(cache, id, w) ==
    IF w # Undefined THEN CacheWrite(cache, id, w) ELSE cache

\* The host is reachable: the lookup asks the store.
Fetch ==
    /\ pc = "fetch"
    /\ \E r \in StoreResponses(platform) :
         LET w == StoreWarning(platform, value, r)
         IN /\ warning' = w
            /\ pc' = AfterLookup(w)
            /\ trace' = Append(trace, Event("store", [id |-> value, response |-> r]))
            /\ IF platform = "ios"
               THEN /\ cachedIOSBundleIdResults' =
                          CacheAfter(cachedIOSBundleIdResults, value, w)
                    /\ UNCHANGED cachedAndroidApplicationIdResults
               ELSE /\ cachedAndroidApplicationIdResults' =
                          CacheAfter(cachedAndroidApplicationIdResults, value, w)
                    /\ UNCHANGED cachedIOSBundleIdResults
    /\ storeRequests' = [storeRequests EXCEPT ![platform] = @ \cup {value}]
    /\ UNCHANGED <<config, interactive, platform, exp, recommended, value,
                   outcome, nCalls, declines>>

----------------------------------------------------------------------------
(* Lines 157-170 / 249-262: the warning and its confirmation *)

\* AfterConfirm ignoring the answer.
AfterConfirm_IgnoreAnswer(answer) == "persist"

\* AfterConfirm with the negation dropped: a "no" persists, a "yes" restarts.
AfterConfirm_Inverted(answer) == IF answer THEN "read" ELSE "persist"

\* Where resolve goes with the answer to "Continue?": on to persistence, or
\* into a new activation of itself, which starts by reading the config.
AfterConfirm(answer) == IF answer THEN "persist" ELSE "read"

Confirm ==
    /\ pc = "confirm"
    /\ \E answer \in BOOLEAN :
         /\ answer \/ declines < MaxDeclines
         /\ pc' = AfterConfirm(answer)
         /\ trace' = trace \o <<Log("warning", warning), Event("confirm", answer)>>
         /\ IF pc' = "persist"
            THEN UNCHANGED <<exp, recommended, value, warning, declines>>
            ELSE /\ declines' = declines + 1
                 /\ exp' = NotRead
                 /\ recommended' = Undefined
                 /\ value' = Undefined
                 /\ warning' = Undefined
    /\ UNCHANGED <<config, interactive, cachedIOSBundleIdResults,
                   cachedAndroidApplicationIdResults, platform, outcome,
                   storeRequests, nCalls>>

----------------------------------------------------------------------------
(* Lines 172-181 / 264-275 and 278-319: persistence *)

\* Edits without the spread: the section's other fields are dropped.
Edits_NoSpread(p, cfg, v) == [k \in {p} |-> [f \in {Field(p)} |-> v]]

\* { ios: { ...(exp.ios || {}), bundleIdentifier } } and its Android twin.
Edits(p, cfg, v) == [k \in {p} |-> Spread(cfg[p], Field(p), v)]

\* ExactEdits handing on the whole section, as the edits do.
ExactEdits_WholeSection(p, v) == Edits(p, exp, v)

\* { ios: { bundleIdentifier } } and its Android twin.
ExactEdits(p, v) == [k \in {p} |-> [f \in {Field(p)} |-> v]]

\* What modifyConfigAsync may answer.
Modifications ==
    {[type |-> "success", message |-> ""],
     [type |-> "warn", message |-> "dynamic config"],
     [type |-> "fail", message |-> "cannot write the config"]}

\* The config file after a successful modification with these edits.
Written(cfg, edits) ==
    [k \in DOMAIN cfg |-> IF k \in DOMAIN edits THEN edits[k] ELSE cfg[k]]

\* warnAboutConfigAndThrow without its 'warn' branch.
warnAboutConfigAndThrow_AlwaysGeneric(type, message, edits) ==
    <<Log("text", NoConfigNotice),
      Log("text", ManualEditNotice),
      Log("json", edits)>>

\* What warnAboutConfigAndThrow displays before it throws.
warnAboutConfigAndThrow(type, message, edits) ==
    <<Log("text", IF type = "warn" THEN message ELSE NoConfigNotice),
      Log("text", ManualEditNotice),
      Log("json", edits)>>

\* Succeeded taking every answer of the writer for a success.
Succeeded_Always(modification) == TRUE

\* Whether attemptModification returns normally.
Succeeded(modification) == modification.type = "success"

Persist ==
    /\ pc = "persist"
    /\ \E m \in Modifications :
         LET edits == Edits(platform, exp, value)
         IN IF Succeeded(m)
            THEN /\ config' = Written(config, edits)
                 /\ trace' = Append(trace, Event("writer", [edits |-> edits, result |-> m]))
                 /\ Finish(Returned(value))
            ELSE /\ trace' = Append(trace, Event("writer", [edits |-> edits, result |-> m]))
                                \o warnAboutConfigAndThrow(
                                       m.type, m.message,
                                       ExactEdits(platform, value))
                 /\ Finish(SilentError)
                 /\ UNCHANGED config
    /\ UNCHANGED <<interactive, cachedIOSBundleIdResults,
                   cachedAndroidApplicationIdResults, platform, exp,
                   recommended, value, warning, storeRequests, nCalls,
                   declines>>

----------------------------------------------------------------------------

Next ==
    \/ \E p \in Platforms : Start(p)
    \/ ReadConfig
    \/ Suggest
    \/ Prompt
    \/ LookupCached
    \/ Probe
    \/ Fetch
    \/ Confirm
    \/ Persist

Spec == Init /\ [][Next]_vars

\* The validators on their own: any string of up to MaxLen characters, of
\* letters of both cases, a digit, and the punctuation the grammars name or
\* exclude, is handed to one of the two validators.
Chars == {"a", "A", "1", "-", ".", "_", "/"}

Strings == UNION {[1..n -> Chars] : n \in 0..MaxLen}

Verdict(b) == [kind |-> "verdict", val |-> b]

ValidatorInit ==
    /\ value \in Strings
    /\ platform \in Platforms
    /\ pc = "validate"
    /\ outcome = NoOutcome
    /\ config = NotRead
    /\ interactive = FALSE
    /\ cachedIOSBundleIdResults = <<>>
    /\ cachedAndroidApplicationIdResults = <<>>
    /\ exp = NotRead
    /\ recommended = Undefined
    /\ warning = Undefined
    /\ trace = <<>>
    /\ storeRequests = [p \in Platforms |-> {}]
    /\ nCalls = 0
    /\ declines = 0

\* validateBundleId(value) / validatePackage(value)
ApplyValidator ==
    /\ pc = "validate"
    /\ outcome' = Verdict(Validate(platform, value))
    /\ pc' = "validated"
    /\ UNCHANGED <<config, interactive, cachedIOSBundleIdResults,
                   cachedAndroidApplicationIdResults, platform, exp,
                   recommended, value, warning, trace, storeRequests, nCalls,
                   declines>>

ValidatorSpec == ValidatorInit /\ [][ApplyValidator]_vars

\* The configs of the liveness specification: no owner, one slug, no other
\* section fields, and each identifier either unset or "c.a".
LiveConfigs ==
    {c \in Configs : /\ c.owner = Undefined
                     /\ c.slug = <<"a", "-", "b">>
                     /\ "buildNumber" \notin DOMAIN c.ios
                     /\ \A p \in Platforms :
                          Get(c, p, Field(p)) \in {Undefined, <<"c", ".", "a">>}}

LiveInit == Init /\ config \in LiveConfigs

\* A step of the running call (Start, the caller's step, is not one).
Step ==
    \/ ReadConfig
    \/ Suggest
    \/ Prompt
    \/ LookupCached
    \/ Probe
    \/ Fetch
    \/ Confirm
    \/ Persist

\* A running call takes its next step: each awaited collaborator answers, and
\* the user declines at most MaxDeclines times per call.
LiveSpec == LiveInit /\ [][Next]_vars /\ WF_vars(Step)

----------------------------------------------------------------------------
(* Properties *)

\* A top-level call has ended.
Ended == pc = "idle" /\ outcome.kind # "none"

\* The value the running (or last) activation read for its own field.
Existing == Get(exp, platform, Field(platform))

\* The positions of the trace that are calls of op.
Calls(op) == {i \in 1..Len(trace) : trace[i].op = op}

\* The collaborators the early exits must not touch.
Collaborators == {"identity", "prompt", "probe", "store", "confirm", "writer"}

NoCollaboratorCalled == \A i \in 1..Len(trace) : trace[i].op \notin Collaborators

\* C1: when the config read by a call holds a value for the target field that
\* passes the platform's validator, the call's first step ends it: it returns
\* exactly that value, has called none of identity lookup, prompt, probe,
\* store, confirmation and config writer, and leaves the caches (and the
\* config) as they were.
C1_ValidExistingReturned ==
    [][(/\ pc = "read"
        /\ Truthy(Get(config, platform, Field(platform)))
        /\ Validate(platform, Get(config, platform, Field(platform))))
       => (/\ pc' = "idle"
           /\ outcome'.kind = "return"
           /\ outcome'.val = Get(config, platform, Field(platform))
           /\ \A i \in 1..Len(trace') : trace'[i].op \notin Collaborators
           /\ UNCHANGED <<cachedIOSBundleIdResults,
                          cachedAndroidApplicationIdResults, config,
                          storeRequests>>)]_vars

C1_Witness ==
    /\ Ended
    /\ outcome.kind = "return"
    /\ Truthy(Existing)
    /\ outcome.val = Existing
    /\ NoCollaboratorCalled

\* C2 as stated: whenever the target field is present in the config with a
\* value the validator rejects, the empty string included, the call ends in
\* the format error and has called no prompt, lookup or writer.
C2_PresentInvalidRejected ==
    (/\ Ended
     /\ Field(platform) \in DOMAIN exp[platform]
     /\ ~Validate(platform, Existing))
    => (/\ outcome.kind = "CommandError"
        /\ NoCollaboratorCalled)

\* C2, amended: whenever the target field holds a non-empty value the
\* validator rejects, the call ends in the format error, has called no
\* prompt, lookup or writer, and the config still holds the malformed value.
C2_NonEmptyInvalidRejected ==
    (/\ Ended
     /\ Truthy(Existing)
     /\ ~Validate(platform, Existing))
    => (/\ outcome.kind = "CommandError"
        /\ outcome.val = FormatMessage(platform)
        /\ NoCollaboratorCalled
        /\ config = exp)

C2_Witness ==
    /\ Ended
    /\ Truthy(Existing)
    /\ ~Validate(platform, Existing)
    /\ outcome.kind = "CommandError"

\* C3: every identifier a call returns and every identifier it hands to the
\* config writer passes the platform's validator, on the existing-value path
\* as after any number of declined confirmations.
C3_OnlyValidIdentifiers ==
    /\ outcome.kind = "return" => Validate(platform, outcome.val)
    /\ \A i \in Calls("writer") :
         Validate(platform, trace[i].arg.edits[platform][Field(platform)])

C3_Witness ==
    /\ Ended
    /\ outcome.kind = "return"
    /\ declines >= 1
    /\ Calls("writer") # {}
    /\ Validate(platform, outcome.val)

\* C4 as stated: within one process no identifier is sent to a platform's
\* store a second time, however many lookups of it are made.
C4_OneStoreCallPerId ==
    [][pc = "fetch" => value \notin storeRequests[platform]]_vars

\* The last collaborator call or displayed line of the trace t.
Last(t) == t[Len(t)]

\* C5: a lookup of an identifier that is not cached, finding the host
\* unreachable, yields no warning and leaves the caches and the store
\* untouched; finding it reachable, such a lookup (a later one of the same
\* identifier included) goes to the store, which receives a request for it.
C5_UnreachableSkipsStore ==
    [][/\ (pc = "lookup" /\ ~Cached(Cache(platform), value))
          => /\ Last(trace').op = "probe"
             /\ IF Last(trace').arg.reachable
                THEN pc' = "fetch"
                ELSE /\ pc' = "persist"
                     /\ warning' = Undefined
                     /\ UNCHANGED <<cachedIOSBundleIdResults,
                                    cachedAndroidApplicationIdResults,
                                    storeRequests>>
       /\ pc = "fetch"
          => /\ value \in storeRequests'[platform]
             /\ Last(trace').op = "store"
             /\ Last(trace').arg.id = value]_vars

C5_Witness ==
    /\ pc = "persist"
    /\ Last(trace).op = "probe"
    /\ ~Last(trace).arg.reachable
    /\ warning = Undefined
    /\ ~Cached(Cache(platform), value)
    /\ value \notin storeRequests[platform]

\* A response the lookup cannot use: the request was rejected (transport
\* fault), or for iOS the body is no JSON or announces results it lacks.
Faulty(p, r) ==
    \/ r.rejected
    \/ p = "ios" /\ (~r.parses \/ (r.resultCount > 0 /\ Len(r.results) = 0))

Shown(t) ==
    \E i \in Calls("log") : trace[i].arg.kind = "text" /\ trace[i].arg.text = t

\* C7: after a config-writer answer of type 'warn' the call has displayed the
\* writer's message and not the generic notice; after any other answer than
\* 'success' it has displayed the generic notice and not the writer's
\* message; either way it ends in a SilentError and returns nothing.
C7_WriterFailureMessages ==
    \A i \in Calls("writer") :
        LET m == trace[i].arg.result
        IN /\ m.type = "warn"
              => /\ outcome.kind = "SilentError"
                 /\ Shown(m.message)
                 /\ ~Shown(NoConfigNotice)
           /\ m.type \notin {"success", "warn"}
              => /\ outcome.kind = "SilentError"
                 /\ Shown(NoConfigNotice)
                 /\ ~Shown(m.message)

C7_Witness ==
    /\ Ended
    /\ outcome.kind = "SilentError"
    /\ \E i \in Calls("writer") : trace[i].arg.result.type = "warn"
    /\ Shown("dynamic config")

\* The user has just declined the confirmation.
JustDeclined ==
    /\ Len(trace) > 0
    /\ Last(trace).op = "confirm"
    /\ ~Last(trace).arg

\* C8: a declined confirmation leads to the value prompt again, and a call in
\* which the user declines only finitely often (at most MaxDeclines times)
\* ends: it returns or fails.
C8_DeclineRepromptsAndTerminates ==
    /\ JustDeclined ~> (pc = "prompt")
    /\ (pc # "idle") ~> Ended

\* After a decline the user has entered a value other than the declined one.
C8_Witness ==
    /\ pc = "lookup"
    /\ \E i \in Calls("prompt") : \E j \in Calls("confirm") :
         /\ i < j
         /\ ~trace[j].arg
         /\ \A k \in Calls("prompt") : k <= i \/ k > j
         /\ trace[i].arg.answer # value

\* C9: a call that has to prompt (the target field is absent or empty) without
\* a terminal ends in the prompt's error carrying the platform's fixed
\* message, and has called no probe, store, confirmation or config writer.
C9_NonInteractiveFails ==
    (/\ Ended
     /\ ~Truthy(Existing)
     /\ ~interactive)
    => (/\ outcome.kind = "CommandError"
        /\ outcome.val = NonInteractiveHelp(platform)
        /\ \A i \in 1..Len(trace) :
             trace[i].op \notin {"probe", "store", "confirm", "writer"}
        /\ config = exp)

C9_Witness ==
    /\ Ended
    /\ ~interactive
    /\ Calls("prompt") # {}
    /\ outcome.kind = "CommandError"
    /\ Field(platform) \notin DOMAIN exp[platform]

\* The other platform's identifier in the config the activation read.
OtherExisting == Get(exp, Other(platform), Field(Other(platform)))

\* C10: when the target field is absent and the other platform's identifier
\* is set and passes the target platform's validator, every prompt of the
\* call got that identifier as its initial value, and the identity lookup was
\* not called.
C10_OtherPlatformSuggested ==
    (/\ ~Truthy(Existing)
     /\ Truthy(OtherExisting)
     /\ Validate(platform, OtherExisting))
    => (/\ \A i \in Calls("prompt") :
             trace[i].arg.question.initial = OtherExisting
        /\ pc = "prompt" => recommended = OtherExisting
        /\ Calls("identity") = {})

C10_Witness ==
    /\ pc = "lookup"
    /\ platform = "ios"
    /\ ~Truthy(Existing)
    /\ OtherExisting = <<"c", ".", "a">>
    /\ \E i \in Calls("prompt") : trace[i].arg.question.initial = OtherExisting

\* The answer to the last prompt among the first n entries of the trace.
Entered(n) ==
    LET last == CHOOSE j \in Calls("prompt") :
                    j <= n /\ \A k \in Calls("prompt") : k <= n => k <= j
    IN trace[last].arg.answer

\* The identifier a config-writer call was given for the target field.
WrittenId(i) == trace[i].arg.edits[platform][Field(platform)]

\* C11: after a lookup that yields no warning, or a warning the user confirms,
\* the call is at the config writer with the value entered at the last prompt;
\* every config-writer call carries that value; and a call that prompted
\* returns only as the step after a config-writer call that carried the
\* returned value and answered 'success'.
C11_PersistThenReturn ==
    /\ pc = "persist" => value = Entered(Len(trace))
    /\ \A i \in Calls("writer") :
         /\ \E j \in Calls("prompt") : j < i
         /\ WrittenId(i) = Entered(i)
         /\ trace[i - 1].op \in {"probe", "store", "confirm"}
    /\ \A i \in Calls("confirm") :
         (trace[i].arg /\ i < Len(trace)) => trace[i + 1].op = "writer"
    /\ \A i \in Calls("probe") :
         (~trace[i].arg.reachable /\ i < Len(trace)) => trace[i + 1].op = "writer"
    /\ (outcome.kind = "return" /\ Calls("prompt") # {})
       => /\ Last(trace).op = "writer"
          /\ Last(trace).arg.result.type = "success"
          /\ WrittenId(Len(trace)) = outcome.val
          /\ outcome.val = Entered(Len(trace))

C11_Witness ==
    /\ Ended
    /\ outcome.kind = "return"
    /\ \E i \in Calls("confirm") : trace[i].arg
    /\ Last(trace).op = "writer"
    /\ Last(trace).arg.result.type = "success"
    /\ WrittenId(Len(trace)) = outcome.val

\* The characters a bundle identifier continues with, and a package segment.
BundleIdTail == Letters \cup Digits \cup {"-", "."}
SegmentTail == Letters \cup Digits \cup {"_"}

\* The bundle-identifier grammar as the claim words it: a letter, and a
\* remainder (of any length) of letters, digits, '-' and '.'.
BundleIdGrammarAsStated(s) ==
    /\ s # <<>>
    /\ Head(s) \in Letters
    /\ \A i \in 1..Len(Tail(s)) : Tail(s)[i] \in BundleIdTail

\* The same with a remainder of at least one character.
BundleIdGrammar(s) == BundleIdGrammarAsStated(s) /\ Tail(s) # <<>>

\* The segments of s between its dots (and its two ends).
Cuts(s) == {0, Len(s) + 1} \cup {i \in 1..Len(s) : s[i] = "."}

Segments(s) ==
    {SubSeq(s, c[1] + 1, c[2] - 1) :
       c \in {d \in Cuts(s) \X Cuts(s) :
                /\ d[1] < d[2]
                /\ \A e \in Cuts(s) : e <= d[1] \/ e >= d[2]}}

\* The package grammar: at least two dot-separated segments, each a letter
\* followed by letters, digits or '_'.
PackageGrammar(s) ==
    /\ Cardinality(Cuts(s)) >= 3
    /\ \A seg \in Segments(s) :
         /\ seg # <<>>
         /\ Head(seg) \in Letters
         /\ \A i \in 1..Len(Tail(seg)) : Tail(seg)[i] \in SegmentTail

\* C12 as stated: validateBundleId accepts exactly the strings that start
\* with a letter and go on with any number, none included, of letters,
\* digits, '-' and '.'; validatePackage accepts exactly the package grammar.
C12_ValidatorsMatchStatedGrammar ==
    pc = "validated"
    => outcome.val = (IF platform = "ios" THEN BundleIdGrammarAsStated(value)
                      ELSE PackageGrammar(value))

\* C12, amended: validateBundleId accepts exactly the strings that start with
\* a letter and go on with one or more letters, digits, '-' and '.' (a single
\* letter, the empty string, a leading digit and a '/' are rejected);
\* validatePackage accepts exactly the dot-separated strings of two or more
\* segments, each a letter followed by letters, digits or '_'.
C12_ValidatorsMatchGrammar ==
    pc = "validated"
    => outcome.val = (IF platform = "ios" THEN BundleIdGrammar(value)
                      ELSE PackageGrammar(value))

C12_Witness ==
    /\ pc = "validated"
    /\ platform = "ios"
    /\ value = <<"a">>
    /\ outcome = Verdict(FALSE)

\* C13: no step of the process changes or removes a stored cache entry of
\* either platform, and a lookup of an identifier with a stored entry yields
\* exactly the stored warning, without a probe or a store request.
C13_CacheWriteOnce ==
    [][/\ \A p \in Platforms : \A id \in DOMAIN Cache(p) :
            /\ id \in DOMAIN Cache(p)'
            /\ Cache(p)'[id] = Cache(p)[id]
       /\ (pc = "lookup" /\ value \in DOMAIN Cache(platform))
          => /\ warning' = Cache(platform)[value]
             /\ pc' = "confirm"
             /\ UNCHANGED <<trace, storeRequests>>]_vars

\* A lookup was just answered from an entry an earlier lookup stored, while
\* the cache holds a second entry.
C13_Witness ==
    /\ pc = "confirm"
    /\ Last(trace).op = "prompt"
    /\ value \in DOMAIN Cache(platform)
    /\ warning = Cache(platform)[value]
    /\ Cardinality(DOMAIN Cache(platform)) = 2

\* The username the identity lookup of the running activation gave, if the
\* lookup was called (it is the last call before the header is displayed).
LookedUp ==
    IF Len(trace) >= 2 /\ trace[Len(trace) - 1].op = "identity"
    THEN trace[Len(trace) - 1].arg
    ELSE Undefined

\* com.<identity>.<slug> of the config the activation read: the owner when
\* the config has one, else the looked-up username.
Synthesized ==
    <<"c", "o", "m", ".">>
    \o Interp(IF exp.owner # Undefined THEN exp.owner ELSE LookedUp)
    \o <<".">> \o Interp(exp.slug)

\* The synthesized candidate: for Android without its dashes.
Candidate ==
    IF platform = "android" THEN StripChar(Synthesized, "-") ELSE Synthesized

\* The other platform's identifier cannot serve as the suggestion.
OtherUnusable == ~Truthy(OtherExisting) \/ ~Validate(platform, OtherExisting)

\* C14: the suggestion handed to a prompt is absent or passes the platform's
\* validator; it is absent when the other platform's identifier is unusable
\* and the synthesized identifier (dashes stripped for Android) does not
\* validate, and when the other platform's identifier is unusable and neither
\* an owner nor a username is at hand.
C14_SuggestionValidOrAbsent ==
    /\ \A i \in Calls("prompt") :
         \/ trace[i].arg.question.initial = Undefined
         \/ Validate(platform, trace[i].arg.question.initial)
    /\ pc = "prompt"
       => /\ recommended = Undefined \/ Validate(platform, recommended)
          /\ (OtherUnusable /\ ~Validate(platform, Candidate))
             => recommended = Undefined
          /\ (OtherUnusable /\ ~Truthy(exp.owner) /\ ~Truthy(LookedUp))
             => recommended = Undefined

\* A username is at hand, the other platform's identifier is set, and yet
\* nothing is suggested: neither candidate validates.
C14_Witness ==
    /\ pc = "prompt"
    /\ platform = "ios"
    /\ Truthy(OtherExisting)
    /\ LookedUp = <<"m">>
    /\ recommended = Undefined

\* The running activation called the identity lookup.
IdentityConsulted ==
    Len(trace) >= 2 /\ trace[Len(trace) - 1].op = "identity"

\* C15: when the other platform's identifier is absent or fails the target
\* validator, the suggestion is either absent or com.<identity>.<slug>, with
\* identity the owner if the config has one and else the looked-up username,
\* and with the dashes removed for Android and kept for iOS; it is that
\* candidate whenever the identity is non-empty and the candidate validates;
\* and the identity lookup is called exactly when the config has no owner
\* (and not at all when the other platform's identifier is used).
C15_SynthesizedCandidate ==
    pc = "prompt"
    => IF OtherUnusable
       THEN /\ recommended \in {Undefined, Candidate}
            /\ (/\ Truthy(IF exp.owner # Undefined THEN exp.owner ELSE LookedUp)
                /\ Validate(platform, Candidate))
               => recommended = Candidate
            /\ IdentityConsulted <=> exp.owner = Undefined
       ELSE ~IdentityConsulted

\* Android is offered com.o.ab for the owner "o" and the slug "a-b".
C15_Witness ==
    /\ pc = "prompt"
    /\ platform = "android"
    /\ exp.owner = <<"o">>
    /\ exp.slug = <<"a", "-", "b">>
    /\ recommended = <<"c", "o", "m", ".", "o", ".", "a", "b">>
    /\ ~IdentityConsulted

\* The confirmations of the value entered at the last prompt before entry n.
ConfirmsOfEntered(n) ==
    {j \in Calls("confirm") :
       j <= n /\ \A k \in Calls("prompt") : k <= n => k < j}

\* C16: in one top-level call, however often the user declines, the config
\* writer is called at most once, after every prompt and confirmation of the
\* call, with the value entered at the last prompt, whose confirmation (if
\* one was asked) was not declined; a declined confirmation is followed by a
\* fresh read of the config and a new prompt, never by a config-writer call
\* or a return.
C16_WriterOnceWithAcceptedValue ==
    /\ Cardinality(Calls("writer")) <= 1
    /\ \A i \in Calls("writer") :
         /\ \A j \in Calls("prompt") \cup Calls("confirm") : j < i
         /\ WrittenId(i) = Entered(i)
         /\ \A j \in ConfirmsOfEntered(i) : trace[j].arg
    /\ \A j \in Calls("confirm") :
         ~trace[j].arg
         => IF j = Len(trace)
            THEN pc = "read" /\ outcome.kind = "none"
            ELSE trace[j + 1].op = "getConfig"
    /\ (outcome.kind = "return" /\ Calls("prompt") # {})
       => /\ outcome.val = Entered(Len(trace))
          /\ \A j \in ConfirmsOfEntered(Len(trace)) : trace[j].arg

\* After a decline the user entered another value, which was written and
\* returned; the declined value was not.
C16_Witness ==
    /\ Ended
    /\ outcome.kind = "return"
    /\ Cardinality(Calls("writer")) = 1
    /\ \E j \in Calls("confirm") :
         /\ ~trace[j].arg
         /\ Entered(j) # outcome.val
         /\ \A i \in Calls("writer") : WrittenId(i) # Entered(j)

\* Entry i of the trace displays a warning.
IsWarningLog(i) == trace[i].op = "log" /\ trace[i].arg.kind = "warning"

\* Entry i of the trace is the end of a lookup that produced no warning: an
\* unreachable host, or a store answer that yields none.
IsCleanLookup(i) ==
    \/ trace[i].op = "probe" /\ ~trace[i].arg.reachable
    \/ /\ trace[i].op = "store"
       /\ StoreWarning(platform, trace[i].arg.id, trace[i].arg.response) = Undefined

\* Entry i of the trace is a store answer that yields a warning.
IsWarnedStore(i) ==
    /\ trace[i].op = "store"
    /\ StoreWarning(platform, trace[i].arg.id, trace[i].arg.response) # Undefined

\* Entry i of the trace is the end of a lookup that produced a warning: a
\* store answer that yields one, or, when the cache answered the lookup, the
\* prompt whose answer was looked up.
IsWarnedLookup(i) ==
    \/ IsWarnedStore(i)
    \/ /\ trace[i].op = "prompt"
       /\ Cached(Cache(platform), trace[i].arg.answer)

\* C17: the call asks for confirmation exactly when the lookup of the value
\* just entered produced a warning: then the warning is displayed, the
\* confirmation follows it, and no config-writer call precedes them; after a
\* lookup without a warning the next call is the config writer's, with no
\* warning displayed and no confirmation asked.
C17_ConfirmIffWarning ==
    /\ pc = "confirm" => warning # Undefined /\ IsWarnedLookup(Len(trace))
    /\ pc = "persist"
       => IF warning = Undefined
          THEN IsCleanLookup(Len(trace))
          ELSE Last(trace).op = "confirm" /\ Last(trace).arg
    /\ \A j \in Calls("confirm") :
         /\ j >= 3
         /\ IsWarningLog(j - 1)
         /\ IsWarnedLookup(j - 2)
         /\ \A i \in Calls("writer") : j < i
    /\ \A i \in 1..Len(trace) :
         /\ IsWarningLog(i) => (i < Len(trace) /\ trace[i + 1].op = "confirm")
         /\ (IsCleanLookup(i) /\ i < Len(trace)) => trace[i + 1].op = "writer"
         /\ IsWarnedStore(i)
            => IF i = Len(trace) THEN pc = "confirm" ELSE IsWarningLog(i + 1)
    /\ \A i \in Calls("writer") :
         \/ IsCleanLookup(i - 1)
         \/ trace[i - 1].op = "confirm" /\ trace[i - 1].arg

\* A store answer produced a warning, it was displayed, the user confirmed,
\* and the call is about to persist.
C17_Witness ==
    /\ pc = "persist"
    /\ Len(trace) >= 3
    /\ Last(trace).op = "confirm"
    /\ IsWarningLog(Len(trace) - 1)
    /\ trace[Len(trace) - 2].op = "store"

\* Entry i of the trace displays the plain text t.
IsTextLog(i, t) ==
    trace[i].op = "log" /\ trace[i].arg.kind = "text" /\ trace[i].arg.text = t

\* Entry i of the trace displays a JSON fragment that holds the target
\* platform's section with the target field alone, set to v.
IsFragmentLog(i, v) ==
    /\ trace[i].op = "log"
    /\ trace[i].arg.kind = "json"
    /\ DOMAIN trace[i].arg.text = {platform}
    /\ DOMAIN trace[i].arg.text[platform] = {Field(platform)}
    /\ trace[i].arg.text[platform][Field(platform)] = v

\* C18: a config-writer answer other than 'success' is followed by exactly
\* three displayed lines, the explanatory text (the writer's message for
\* 'warn', else the generic notice), the manual-edit notice and the JSON
\* fragment with only the target field set to the accepted value, and then
\* by the SilentError, after which the call displays nothing; and a
\* SilentError is never raised otherwise.
C18_ExplainedBeforeSilentError ==
    /\ \A i \in Calls("writer") :
         trace[i].arg.result.type # "success"
         => /\ Len(trace) = i + 3
            /\ IsTextLog(i + 1, IF trace[i].arg.result.type = "warn"
                                THEN trace[i].arg.result.message
                                ELSE NoConfigNotice)
            /\ IsTextLog(i + 2, ManualEditNotice)
            /\ IsFragmentLog(i + 3, Entered(i))
            /\ pc = "idle"
            /\ outcome.kind = "SilentError"
    /\ outcome.kind = "SilentError"
       => /\ Len(trace) >= 4
          /\ trace[Len(trace) - 3].op = "writer"
          /\ trace[Len(trace) - 3].arg.result.type # "success"

\* The writer failed on a config whose ios section holds another field: the
\* edits carry that field, the displayed fragment does not.
C18_Witness ==
    /\ Ended
    /\ outcome.kind = "SilentError"
    /\ platform = "ios"
    /\ "buildNumber" \in DOMAIN config.ios
    /\ IsFragmentLog(Len(trace), <<"c", ".", "a">>)
    /\ trace[Len(trace) - 3].arg.result.type = "fail"

\* android.applicationId of the config the activation read.
ApplicationId == Get(exp, "android", "applicationId")

\* C19 as stated (and as the doc comments of both entry points say): when the
\* target field is absent and the config sets android.applicationId, the
\* prompt is offered that value, ahead of the other platform's identifier
\* and of the username-based value.
C19_ApplicationIdSuggested ==
    (/\ pc = "prompt"
     /\ ~Truthy(Existing)
     /\ Truthy(ApplicationId))
    => recommended = ApplicationId

\* C20: the edits of every config-writer call have the target platform's
\* section as their only top-level field; that section has the fields the
\* section had in the config the activation read, each with its value, and
\* the target field, set to the value entered at the last prompt.
C20_EditsTouchTargetSectionOnly ==
    \A i \in Calls("writer") :
        LET edits == trace[i].arg.edits
        IN /\ DOMAIN edits = {platform}
           /\ DOMAIN edits[platform] = DOMAIN exp[platform] \cup {Field(platform)}
           /\ \A f \in DOMAIN exp[platform] \ {Field(platform)} :
                edits[platform][f] = exp[platform][f]
           /\ edits[platform][Field(platform)] = Entered(i)

\* The writer was called for Android on a config whose android section holds
\* applicationId and whose ios section holds buildNumber.
C20_Witness ==
    /\ Calls("writer") # {}
    /\ platform = "android"
    /\ "buildNumber" \in DOMAIN exp.ios
    /\ "applicationId" \in DOMAIN Last(trace).arg.edits.android
    /\ Last(trace).arg.edits.android.package = <<"c", ".", "a">>

====
